---- MODULE Spec2Model ----
(***************************************************************************)
(* start_server.py: a static file server on a fixed port with a SIGINT     *)
(* handler.                                                                *)
(*                                                                         *)
(* The process has one thread.  pc is the position of that thread in       *)
(* start_server; exc is the exception that is propagating, if any.         *)
(* signal_handler runs on the same thread, on top of whatever the thread   *)
(* was doing: hstack holds the frames of signal_handler that are open      *)
(* (a further SIGINT can arrive while the handler itself is running).      *)
(* An exception raised by the handler surfaces at the interrupted point.   *)
(*                                                                         *)
(* The library calls the program makes are modelled by what they do:       *)
(* TCPServer(...) binds and listens or raises OSError, serve_forever       *)
(* accepts and handles one connection at a time in the calling thread,     *)
(* the with statement calls server_close() on the way out, and             *)
(* SimpleHTTPRequestHandler maps the request path under os.getcwd().       *)
(* What the interpreter does once start_server has been left (printing a   *)
(* traceback, finalisation) is one step, Terminate.                        *)
(***************************************************************************)
EXTENDS Integers, Sequences, FiniteSets, TLC

\* Bounds of the model.
MaxSigints == 2
MaxConns == 2

\* start_server.py line 7.
PORT == 8000

VARIABLES
    pc,           \* position of the main thread
    exc,          \* exception propagating in the main thread, or "none"
    disposition,  \* what SIGINT is bound to
    hstack,       \* open frames of signal_handler, innermost last
    cwd,          \* working directory of the process
    startCwd,     \* working directory the process was started in
    sock,         \* listening socket: "none", "listening", "closed" (by
                  \* server_close), "closed_by_exit" (by the end of the process)
    busyPorts,    \* ports another process is listening on
    bindResult,   \* "not_tried", "ok", "failed"
    out,          \* lines written to standard output
    exitStatus,   \* -1 while the process runs
    sigints,      \* SIGINTs delivered so far
    nconns,       \* connections made by clients so far
    backlog,      \* connections waiting in the listen queue
    active,       \* connections whose request is being handled
    accepted,     \* ids of connections taken from the listen queue
    completed,    \* ids of connections whose request was handled to the end
    failed,       \* ids of connections whose request raised inside the handler
    aborted,      \* ids of connections dropped in the middle of their request
    lastResponse  \* the last response sent, or NoResponse

vars == <<pc, exc, disposition, hstack, cwd, startCwd, sock, busyPorts, bindResult,
          out, exitStatus, sigints, nconns, backlog, active, accepted, completed,
          failed, aborted, lastResponse>>

procVars == <<pc, exc, disposition, hstack, cwd, startCwd, sock, busyPorts,
              bindResult, out, exitStatus, sigints>>
reqVars == <<nconns, backlog, active, accepted, completed, failed, aborted,
             lastResponse>>

-----------------------------------------------------------------------------
(* The file system under the two directories the process may be in.        *)

ScriptDir == "scriptdir"
Dirs == {ScriptDir, "elsewhere"}

Names == {"a.txt", "secret", "sub", "docs", "nope"}
Targets == [name : Names, slash : BOOLEAN]

\* What a name is under a directory.
Kind(dir, name) ==
    IF dir = ScriptDir
    THEN CASE name = "a.txt"  -> "file"
           [] name = "secret" -> "unreadable_file"
           [] name = "sub"    -> "dir_no_index"
           [] name = "docs"   -> "dir_with_index"
           [] OTHER           -> "missing"
    ELSE CASE name = "a.txt"  -> "dir_no_index"
           [] name = "nope"   -> "file"
           [] OTHER           -> "missing"

IsDir(kind) == kind \in {"dir_no_index", "dir_with_index"}

FileBytes(dir, name) == <<"bytes", dir, name>>
IndexBytes(dir, name) == <<"bytes", dir, name, "index.html">>
Listing(dir, name) == <<"listing", dir, name>>
ErrorPage == <<"error page">>
Empty == <<>>

NoResponse == [status |-> 0, body |-> Empty, root |-> "", target |-> [name |-> "", slash |-> FALSE]]

\* send_head without the redirect of a directory path that lacks its slash.
send_head_NoRedirect(root, target) ==
    LET kind == Kind(root, target.name) IN
    IF IsDir(kind)
    THEN IF kind = "dir_with_index"
         THEN [status |-> 200, body |-> IndexBytes(root, target.name)]
         ELSE [status |-> 200, body |-> Listing(root, target.name)]
    ELSE IF kind = "file"
         THEN [status |-> 200, body |-> FileBytes(root, target.name)]
         ELSE [status |-> 404, body |-> ErrorPage]

\* SimpleHTTPRequestHandler.send_head / do_GET for a GET of `target`, with the
\* handler's directory being `root` (os.getcwd() when the request is handled).
send_head(root, target) ==
    LET kind == Kind(root, target.name) IN
    IF IsDir(kind)
    THEN IF ~target.slash
         THEN [status |-> 301, body |-> Empty]
         ELSE IF kind = "dir_with_index"
              THEN [status |-> 200, body |-> IndexBytes(root, target.name)]
              ELSE [status |-> 200, body |-> Listing(root, target.name)]
    ELSE IF target.slash
         THEN [status |-> 404, body |-> ErrorPage]
         ELSE IF kind = "file"
              THEN [status |-> 200, body |-> FileBytes(root, target.name)]
              ELSE [status |-> 404, body |-> ErrorPage]

-----------------------------------------------------------------------------
UrlLine == [line |-> 23, text |-> "Serving at http://localhost:", port |-> PORT]
HandlerNotice == [line |-> 10, text |-> "Shutting down server...", port |-> 0]
ExceptNotice == [line |-> 27, text |-> "Shutting down server...", port |-> 0]

Count(seq, x) == Cardinality({i \in DOMAIN seq : seq[i] = x})

\* The main thread may take a step of its own: no handler frame is open.
MainRuns == hstack = <<>> /\ pc # "terminated"

Init ==
    /\ pc = "register"
    /\ exc = "none"
    /\ disposition = "default_int_handler"
    /\ hstack = <<>>
    /\ startCwd \in Dirs
    /\ cwd = startCwd
    /\ sock = "none"
    /\ busyPorts \in {{}, {PORT}}
    /\ bindResult = "not_tried"
    /\ out = <<>>
    /\ exitStatus = -1
    /\ sigints = 0
    /\ nconns = 0
    /\ backlog = <<>>
    /\ active = {}
    /\ accepted = {}
    /\ completed = {}
    /\ failed = {}
    /\ aborted = {}
    /\ lastResponse = NoResponse

-----------------------------------------------------------------------------
(* start_server, line by line.                                             *)

\* line 15: signal.signal(signal.SIGINT, signal_handler)
RegisterHandler ==
    /\ MainRuns /\ exc = "none" /\ pc = "register"
    /\ disposition' = "signal_handler"
    /\ pc' = "chdir"
    /\ UNCHANGED <<exc, hstack, cwd, startCwd, sock, busyPorts, bindResult, out,
                   exitStatus, sigints>>
    /\ UNCHANGED reqVars

\* start_server without the change of directory.
ChangeDir_Skipped ==
    /\ MainRuns /\ exc = "none" /\ pc = "chdir"
    /\ pc' = "bind"
    /\ UNCHANGED <<exc, disposition, hstack, cwd, startCwd, sock, busyPorts,
                   bindResult, out, exitStatus, sigints>>
    /\ UNCHANGED reqVars

\* line 18: os.chdir(os.path.dirname(os.path.abspath(__file__)))
ChangeDir ==
    /\ MainRuns /\ exc = "none" /\ pc = "chdir"
    /\ cwd' = ScriptDir
    /\ pc' = "bind"
    /\ UNCHANGED <<exc, disposition, hstack, startCwd, sock, busyPorts, bindResult,
                   out, exitStatus, sigints>>
    /\ UNCHANGED reqVars

\* A bind whose failure is swallowed: start_server goes on to line 23.
Bind_IgnoresFailure ==
    /\ MainRuns /\ exc = "none" /\ pc = "bind"
    /\ IF PORT \notin busyPorts
       THEN /\ sock' = "listening"
            /\ bindResult' = "ok"
       ELSE /\ sock' = sock
            /\ bindResult' = "failed"
    /\ pc' = "announce"
    /\ UNCHANGED <<exc, disposition, hstack, cwd, startCwd, busyPorts, out,
                   exitStatus, sigints>>
    /\ UNCHANGED reqVars

\* line 22: socketserver.TCPServer(("", PORT), Handler) and __enter__.
\* TCPServer.__init__ binds and listens; when that raises it closes the socket
\* it made in an except clause and re-raises ("bind_failed" is that clause).
Bind ==
    /\ MainRuns /\ exc = "none" /\ pc = "bind"
    /\ IF PORT \notin busyPorts
       THEN /\ sock' = "listening"
            /\ bindResult' = "ok"
            /\ pc' = "announce"
            /\ exc' = exc
       ELSE /\ sock' = sock
            /\ bindResult' = "failed"
            /\ pc' = "bind_failed"
            /\ exc' = "OSError"
    /\ UNCHANGED <<disposition, hstack, cwd, startCwd, busyPorts, out, exitStatus,
                   sigints>>
    /\ UNCHANGED reqVars

\* line 23: print(f"Serving at http://localhost:{PORT}")
Announce ==
    /\ MainRuns /\ exc = "none" /\ pc = "announce"
    /\ out' = Append(out, UrlLine)
    /\ pc' = "serve"
    /\ UNCHANGED <<exc, disposition, hstack, cwd, startCwd, sock, busyPorts,
                   bindResult, exitStatus, sigints>>
    /\ UNCHANGED reqVars

-----------------------------------------------------------------------------
(* line 25: httpd.serve_forever().  BaseServer.serve_forever waits for the *)
(* socket to be readable and calls _handle_request_noblock, which accepts  *)
(* one connection and runs the request handler to the end in this thread.  *)

Ids(conns) == {c.id : c \in conns}

\* A client connects; the kernel queues the connection while the socket listens.
Connect ==
    /\ pc # "terminated" /\ sock = "listening"
    /\ nconns < MaxConns
    /\ \E t \in Targets :
          backlog' = Append(backlog, [id |-> nconns + 1, target |-> t])
    /\ nconns' = nconns + 1
    /\ UNCHANGED <<active, accepted, completed, failed, aborted, lastResponse>>
    /\ UNCHANGED procVars

\* ThreadingMixIn.process_request: the request is handed to a new thread and
\* the loop goes back to waiting.
process_request_threaded(c) ==
    /\ active' = active \cup {c}
    /\ pc' = "serve"

\* TCPServer.process_request: finish_request in the calling thread.
process_request(c) ==
    /\ active' = active \cup {c}
    /\ pc' = "handle"

Accept ==
    /\ MainRuns /\ exc = "none" /\ pc = "serve"
    /\ backlog # <<>>
    /\ backlog' = Tail(backlog)
    /\ accepted' = accepted \cup {Head(backlog).id}
    /\ process_request(Head(backlog))
    /\ UNCHANGED <<nconns, completed, failed, aborted, lastResponse>>
    /\ UNCHANGED <<exc, disposition, hstack, cwd, startCwd, sock, busyPorts,
                   bindResult, out, exitStatus, sigints>>

\* A serve loop that lets the handler's exception through.
FinishRequest_ErrorEscapes ==
    /\ MainRuns /\ exc = "none" /\ pc = "handle"
    /\ \E c \in active :
          /\ active' = active \ {c}
          /\ \/ /\ lastResponse' = [status |-> send_head(cwd, c.target).status,
                                     body |-> send_head(cwd, c.target).body,
                                     root |-> cwd, target |-> c.target]
                /\ completed' = completed \cup {c.id}
                /\ failed' = failed
                /\ exc' = exc
             \/ /\ failed' = failed \cup {c.id}
                /\ exc' = "OSError"
                /\ UNCHANGED <<lastResponse, completed>>
    /\ pc' = "serve"
    /\ UNCHANGED <<nconns, backlog, accepted, aborted>>
    /\ UNCHANGED <<disposition, hstack, cwd, startCwd, sock, busyPorts,
                   bindResult, out, exitStatus, sigints>>

\* The request handler runs to its end: it answers from the working directory,
\* or raises an Exception (the client went away, say), which
\* _handle_request_noblock hands to handle_error.  Either way the loop goes on.
FinishRequest ==
    /\ MainRuns /\ exc = "none" /\ pc = "handle"
    /\ \E c \in active :
          /\ active' = active \ {c}
          /\ \/ /\ lastResponse' = [status |-> send_head(cwd, c.target).status,
                                     body |-> send_head(cwd, c.target).body,
                                     root |-> cwd, target |-> c.target]
                /\ completed' = completed \cup {c.id}
                /\ failed' = failed
             \/ /\ failed' = failed \cup {c.id}
                /\ UNCHANGED <<lastResponse, completed>>
    /\ pc' = "serve"
    /\ UNCHANGED <<nconns, backlog, accepted, aborted>>
    /\ UNCHANGED <<exc, disposition, hstack, cwd, startCwd, sock, busyPorts,
                   bindResult, out, exitStatus, sigints>>

-----------------------------------------------------------------------------
(* SIGINT.                                                                 *)

\* Before line 15 SIGINT is bound to Python's default handler, which raises
\* KeyboardInterrupt in the main thread.
SigintDefault ==
    /\ disposition = "default_int_handler" /\ pc # "terminated"
    /\ sigints < MaxSigints
    /\ sigints' = sigints + 1
    /\ exc' = "KeyboardInterrupt"
    /\ UNCHANGED <<pc, disposition, hstack, cwd, startCwd, sock, busyPorts,
                   bindResult, out, exitStatus>>
    /\ UNCHANGED reqVars

\* After line 15 SIGINT calls signal_handler on top of the running frame.
SigintCustom ==
    /\ disposition = "signal_handler" /\ pc # "terminated"
    /\ sigints < MaxSigints
    /\ sigints' = sigints + 1
    /\ hstack' = Append(hstack, "print")
    /\ UNCHANGED <<pc, exc, disposition, cwd, startCwd, sock, busyPorts,
                   bindResult, out, exitStatus>>
    /\ UNCHANGED reqVars

\* A handler that exits without printing.
HandlerPrint_Silent ==
    /\ hstack # <<>> /\ hstack[Len(hstack)] = "print"
    /\ hstack' = [hstack EXCEPT ![Len(hstack)] = "exit"]
    /\ UNCHANGED <<pc, exc, disposition, cwd, startCwd, sock, busyPorts,
                   bindResult, out, exitStatus, sigints>>
    /\ UNCHANGED reqVars

\* line 10: print('\nShutting down server...')
HandlerPrint ==
    /\ hstack # <<>> /\ hstack[Len(hstack)] = "print"
    /\ out' = Append(out, HandlerNotice)
    /\ hstack' = [hstack EXCEPT ![Len(hstack)] = "exit"]
    /\ UNCHANGED <<pc, exc, disposition, cwd, startCwd, sock, busyPorts,
                   bindResult, exitStatus, sigints>>
    /\ UNCHANGED reqVars

\* A handler that returns instead of exiting.
HandlerExit_Returns ==
    /\ hstack # <<>> /\ hstack[Len(hstack)] = "exit"
    /\ hstack' = SubSeq(hstack, 1, Len(hstack) - 1)
    /\ UNCHANGED <<pc, exc, disposition, cwd, startCwd, sock, busyPorts,
                   bindResult, out, exitStatus, sigints>>
    /\ UNCHANGED reqVars

\* line 11: sys.exit(0).  SystemExit leaves every open handler frame and is
\* raised where the main thread was interrupted, in place of whatever was
\* propagating there.  Raised inside the with statement's exit it ends that
\* call before server_close() has run.
HandlerExit ==
    /\ hstack # <<>> /\ hstack[Len(hstack)] = "exit"
    /\ hstack' = <<>>
    /\ exc' = "SystemExit"
    /\ pc' = IF pc = "with_exit" THEN "leaving" ELSE pc
    /\ UNCHANGED <<disposition, cwd, startCwd, sock, busyPorts, bindResult, out,
                   exitStatus, sigints>>
    /\ UNCHANGED reqVars

-----------------------------------------------------------------------------
(* Exceptions leaving start_server.                                        *)

\* The exit statuses with sys.exit(1) in the handler.
ExitStatusOf_ExitOne(e) ==
    CASE e = "KeyboardInterrupt" -> 130
      [] e = "none"              -> 0
      [] OTHER                   -> 1

\* The exit status the interpreter gives for what reached the top level.
ExitStatusOf(e) ==
    CASE e = "SystemExit"        -> 0
      [] e = "KeyboardInterrupt" -> 130
      [] e = "OSError"           -> 1
      [] OTHER                   -> 0

\* An exception raised before the with block is entered (lines 15-22): no
\* handler and no clean-up of start_server is in its way.
PropagateOutside ==
    /\ MainRuns /\ exc # "none"
    /\ pc \in {"register", "chdir", "bind", "bind_failed"}
    /\ pc' = "terminated"
    /\ exitStatus' = ExitStatusOf(exc)
    /\ UNCHANGED <<exc, disposition, hstack, cwd, startCwd, sock, busyPorts,
                   bindResult, out, sigints>>
    /\ UNCHANGED reqVars

\* Lines 26-28 with a bare except: the notice of line 27 for SystemExit too.
PropagateInWith_CatchAll ==
    /\ MainRuns /\ exc # "none"
    /\ pc \in {"announce", "serve", "handle"}
    /\ aborted' = aborted \cup Ids(active)
    /\ active' = {}
    /\ IF pc \in {"serve", "handle"}
       THEN /\ out' = Append(out, ExceptNotice)
            /\ exc' = "none"
       ELSE UNCHANGED <<out, exc>>
    /\ pc' = "with_exit"
    /\ UNCHANGED <<nconns, backlog, accepted, completed, failed, lastResponse>>
    /\ UNCHANGED <<disposition, hstack, cwd, startCwd, sock, busyPorts, bindResult,
                   exitStatus, sigints>>

\* An exception raised inside the with block (lines 23-25).  A request being
\* handled is dropped (shutdown_request).  Lines 26-28 catch KeyboardInterrupt
\* raised by serve_forever only.
PropagateInWith ==
    /\ MainRuns /\ exc # "none"
    /\ pc \in {"announce", "serve", "handle"}
    /\ aborted' = aborted \cup Ids(active)
    /\ active' = {}
    /\ IF exc = "KeyboardInterrupt" /\ pc \in {"serve", "handle"}
       THEN /\ out' = Append(out, ExceptNotice)
            /\ exc' = "none"
       ELSE UNCHANGED <<out, exc>>
    /\ pc' = "with_exit"
    /\ UNCHANGED <<nconns, backlog, accepted, completed, failed, lastResponse>>
    /\ UNCHANGED <<disposition, hstack, cwd, startCwd, sock, busyPorts, bindResult,
                   exitStatus, sigints>>

\* line 22, leaving the with block: TCPServer.__exit__ calls server_close().
WithExit ==
    /\ MainRuns /\ pc = "with_exit"
    /\ sock' = "closed"
    /\ pc' = "leaving"
    /\ UNCHANGED <<exc, disposition, hstack, cwd, startCwd, busyPorts, bindResult,
                   out, exitStatus, sigints>>
    /\ UNCHANGED reqVars

\* start_server has been left (line 31): the process ends.  A socket the
\* program did not close is closed by the operating system.
Terminate ==
    /\ MainRuns /\ pc = "leaving"
    /\ pc' = "terminated"
    /\ exitStatus' = ExitStatusOf(exc)
    /\ sock' = IF sock = "listening" THEN "closed_by_exit" ELSE sock
    /\ UNCHANGED <<exc, disposition, hstack, cwd, startCwd, busyPorts, bindResult,
                   out, sigints>>
    /\ UNCHANGED reqVars

-----------------------------------------------------------------------------
MainStep ==
    \/ RegisterHandler
    \/ ChangeDir
    \/ Bind
    \/ Announce
    \/ Accept
    \/ FinishRequest
    \/ HandlerPrint
    \/ HandlerExit
    \/ PropagateOutside
    \/ PropagateInWith
    \/ WithExit
    \/ Terminate

Next ==
    \/ MainStep
    \/ Connect
    \/ SigintDefault
    \/ SigintCustom

Spec == Init /\ [][Next]_vars

\* The thread of the process is always scheduled again.
FairSpec == Spec /\ WF_vars(MainStep)

-----------------------------------------------------------------------------
(* Vocabulary of the properties.                                           *)

NoticesByHandler == Count(out, HandlerNotice)
NoticesByExcept == Count(out, ExceptNotice)
NoticePrinted == NoticesByHandler + NoticesByExcept > 0
UrlPrinted == Count(out, UrlLine) > 0

\* signal_handler has been called for a SIGINT.
InterruptReceived == hstack # <<>> \/ NoticesByHandler > 0

\* The server is in its serve loop and nothing is making it leave.
Running == pc \in {"serve", "handle"} /\ exc = "none"

-----------------------------------------------------------------------------
\* C1 (as claimed): whenever a SIGINT has been delivered, at any time from
\* the start of the process, the process ends with exit status 0 and has
\* printed the shutdown message.
C1_AnySigintExitsZero ==
    (pc = "terminated" /\ sigints > 0) => (exitStatus = 0 /\ NoticePrinted)

\* C1 (amended): whenever a SIGINT is delivered once signal_handler is
\* registered (while changing directory, binding, idle in the serve loop or
\* handling a request), the process prints the shutdown message and
\* terminates with exit status 0.
C1_RegisteredSigintExitsZero ==
    [](hstack # <<>> =>
         <>(pc = "terminated" /\ exitStatus = 0 /\ NoticesByHandler > 0))

C1_Witness ==
    /\ pc = "terminated" /\ exitStatus = 0 /\ NoticesByHandler > 0
    /\ aborted # {} /\ completed # {}

\* C2 (as claimed): once the bind has failed the URL is never printed, the
\* serve loop is never entered, no connection is accepted, and the process
\* ends with a non-zero exit status.
C2_BindFailureExitsNonZero ==
    bindResult = "failed" =>
        /\ ~UrlPrinted
        /\ pc \notin {"announce", "serve", "handle"}
        /\ accepted = {}
        /\ pc = "terminated" => exitStatus # 0

\* C2 (amended): once the bind has failed the URL is never printed, the serve
\* loop is never entered and no connection is accepted; the process ends with
\* a non-zero exit status unless signal_handler ran for a SIGINT before the
\* bind error left start_server, in which case it ends with status 0.
C2_BindFailureNeverServes ==
    bindResult = "failed" =>
        /\ ~UrlPrinted
        /\ pc \notin {"announce", "serve", "handle"}
        /\ sock # "listening"
        /\ accepted = {}
        /\ pc = "terminated" => (exitStatus = 0 <=> NoticesByHandler > 0)
        /\ pc = "terminated" => exitStatus \in {0, 1}

C2_Witness ==
    bindResult = "failed" /\ pc = "terminated" /\ exitStatus = 1 /\ out = <<>>

\* C3 (as claimed): the shutdown notice is never printed while the listening
\* socket is still open.
C3_NoticeAfterSocketReleased ==
    NoticePrinted => sock # "listening"

\* C3 (amended): on an interrupt the shutdown notice comes first, printed
\* while the listening socket is still open; the listening socket is released
\* only after the notice, and the process exits with status 0 only after the
\* notice.
C3_NoticeBeforeSocketReleased ==
    /\ [][(~NoticePrinted /\ NoticePrinted') =>
            (sock' = sock /\ (bindResult = "ok" => sock = "listening"))]_vars
    /\ [][(sock = "listening" /\ sock' # "listening") => NoticePrinted]_vars
    /\ [](exitStatus = 0 => NoticePrinted)

C3_Witness ==
    pc = "terminated" /\ exitStatus = 0 /\ sock = "closed" /\ NoticePrinted

\* C4: once a SIGINT has reached signal_handler no request is completed, no
\* response is sent and no connection is accepted any more; a request that
\* was being handled is dropped.
C4_ShutdownIsImmediate ==
    /\ [][InterruptReceived =>
            /\ completed' = completed
            /\ failed' = failed
            /\ accepted' = accepted
            /\ lastResponse' = lastResponse]_vars
    /\ [](pc = "terminated" => active = {})

C4_Witness ==
    /\ pc = "terminated" /\ exitStatus = 0
    /\ aborted # {} /\ backlog # <<>> /\ completed = {} /\ failed = {}

\* C5: the server leaves the running state only by the SystemExit that
\* signal_handler raises; finishing a request, whatever its outcome, leaves
\* it running.
C5_OnlyInterruptStops ==
    [][(Running /\ ~Running') => (hstack # <<>> /\ exc' = "SystemExit")]_vars

C5_Witness ==
    /\ Running /\ failed # {} /\ completed # {}
    /\ lastResponse.status = 404

\* What a request path maps to under the serving root.
MapsTo(r) == Kind(ScriptDir, r.target.name)

C7_ServingRootIsScriptDir ==
    /\ (sock # "none" \/ bindResult # "not_tried"
          \/ pc \in {"bind", "announce", "serve", "handle"}) => cwd = ScriptDir
    /\ lastResponse # NoResponse => lastResponse.root = ScriptDir

C7_Witness ==
    /\ startCwd # ScriptDir /\ pc = "serve" /\ cwd = ScriptDir
    /\ lastResponse.status = 200

\* C8: after a successful bind, whenever start_server has been left the
\* listening socket has been closed by the with block.
C8_SocketClosedWhenLeft ==
    (bindResult = "ok" /\ pc \in {"leaving", "terminated"}) => sock = "closed"

\* C9 (as claimed): a run that ends because of an interrupt, with
\* signal_handler registered, has printed the shutdown message exactly once.
C9_NoticeExactlyOnce ==
    (pc = "terminated" /\ disposition = "signal_handler" /\ sigints > 0) =>
        NoticesByHandler + NoticesByExcept = 1

\* C9 (amended): a run that ends because of an interrupt, with signal_handler
\* registered, has printed the shutdown message at least once and at most
\* once per SIGINT delivered (exactly once for a single SIGINT); every copy
\* comes from signal_handler, never from the KeyboardInterrupt branch.
C9_NoticeOncePerSigintAtMost ==
    /\ NoticesByExcept = 0
    /\ NoticesByHandler <= sigints
    /\ (pc = "terminated" /\ disposition = "signal_handler" /\ sigints > 0) =>
          NoticesByHandler >= 1

C9_Witness ==
    pc = "terminated" /\ NoticesByHandler = 2 /\ sigints = 2

\* C10: at most one request is in progress, and while one is in progress no
\* further connection is taken from the listen queue.
C10_OneRequestAtATime ==
    /\ [](Cardinality(active) <= 1)
    /\ [][active # {} => accepted' = accepted]_vars

C10_Witness ==
    Cardinality(active) = 1 /\ backlog # <<>> /\ exc = "none"
====
